---- MODULE Spec2Model ----
(***************************************************************************)
(* Model of pkg/cloudprovider/aws/subnets.go: SubnetProvider resolves the  *)
(* subnets of a cluster through a TTL cache in front of                    *)
(* ec2.DescribeSubnets, then narrows them by name, tag key and zones.      *)
(*                                                                         *)
(* Two specifications share the module:                                    *)
(*   Spec        concurrent callers of Get, the cache, the clock, the      *)
(*               janitor of the cache and the EC2 inventory;               *)
(*   FilterSpec  the narrowing stages of Get as a pure function, applied   *)
(*               to every base list and every constraint of the bounds.    *)
(***************************************************************************)
EXTENDS Naturals, Integers, Sequences, FiniteSets, TLC

VARIABLES
    now,        \* the clock (time.Now() read by the cache)
    cache,      \* s.cache: key -> item
    inventory,  \* what EC2 answers to DescribeSubnets, per tag-key filter
    pc,         \* per caller: position in Get / getSubnets
    cl,         \* per caller: provisioner.Spec.Cluster.Name
    cons,       \* per caller: constraints
    out,        \* per caller: output.Subnets of its DescribeSubnets call
    subnets,    \* per caller: the list getSubnets returned (the base set)
    ret,        \* per caller: what Get returned
    hist,       \* per caller: what the call observed (hit, item, epoch, its
                \* fetches and, until the fetch of a miss ends, the fetches
                \* of the cluster that had ended before its lookup)
    fetches,    \* per cluster: DescribeSubnets calls made so far
    stores,     \* per cluster: cache.Set calls made so far, time of the last
    epoch,      \* per cluster: entries of the cluster that have expired
    fpc,        \* FilterSpec: "in" before the stages are applied, "out" after
    fbase,      \* FilterSpec: the base list
    fcons,      \* FilterSpec: the constraints
    fout        \* FilterSpec: the narrowed list

vars == <<now, cache, inventory, pc, cl, cons, out, subnets, ret, hist,
          fetches, stores, epoch, fpc, fbase, fcons, fout>>

mainVars == <<now, cache, inventory, pc, cl, cons, out, subnets, ret, hist,
              fetches, stores, epoch>>

filterVars == <<fpc, fbase, fcons, fout>>

(***************************************************************************)
(* Bounds                                                                  *)
(***************************************************************************)
MaxTime == 3
MaxFetches == 2
MaxLen == 3
MaxZones == 2

(* cache.New(CacheTTL, CacheCleanupInterval): the TTL in clock ticks. *)
CacheTTL == 2

Callers == {"g1", "g2"}
Clusters == {"c1", "c2"}

(***************************************************************************)
(* *string values: aws.String, aws.StringValue                             *)
(***************************************************************************)
NilStr == [present |-> FALSE, s |-> ""]

String(s) == [present |-> TRUE, s |-> s]

StringValue(ptr) == IF ptr.present THEN ptr.s ELSE ""

(***************************************************************************)
(* ec2.Subnet values the inventory can hold                                *)
(***************************************************************************)
Tag(k, v) == [key |-> k, value |-> v]

S1 == [id |-> "s1", zone |-> String("za"),
       tags |-> <<Tag(String("Name"), String("a"))>>]

\* two tags with key "Name"
S2 == [id |-> "s2", zone |-> String("zb"),
       tags |-> <<Tag(String("k"), String("v")),
                  Tag(String("Name"), String("b")),
                  Tag(String("Name"), String("a"))>>]

\* no "Name" tag
S3 == [id |-> "s3", zone |-> String("za"),
       tags |-> <<Tag(String("k"), String("a"))>>]

\* nil tag key, nil tag value, nil zone
S4 == [id |-> "s4", zone |-> NilStr,
       tags |-> <<Tag(NilStr, String("a")), Tag(String("Name"), NilStr)>>]

Subnets == {S1, S2, S3, S4}

RECURSIVE SeqsUpTo(_, _)
SeqsUpTo(S, n) ==
    IF n = 0 THEN {<<>>}
    ELSE LET shorter == SeqsUpTo(S, n - 1)
         IN  shorter \cup {Append(q, x) : q \in shorter, x \in S}

(***************************************************************************)
(* Constraints                                                             *)
(***************************************************************************)
Constraints(name, tagKey, zones) ==
    [name |-> name, tagKey |-> tagKey, zones |-> zones]

GetSubnetName(constraints) == constraints.name

GetSubnetTagKey(constraints) == constraints.tagKey

(***************************************************************************)
(* Filter chain                                                            *)
(***************************************************************************)
\* byName that goes on to the next "Name" tag when one does not match
RECURSIVE byNameTagsAny(_, _)
byNameTagsAny(tags, name) ==
    IF tags = <<>> THEN FALSE
    ELSE IF StringValue(Head(tags).key) = "Name"
            /\ StringValue(Head(tags).value) = name
         THEN TRUE
         ELSE byNameTagsAny(Tail(tags), name)

RECURSIVE byNameTags(_, _)
byNameTags(tags, name) ==
    IF tags = <<>> THEN FALSE
    ELSE IF StringValue(Head(tags).key) = "Name"
         THEN StringValue(Head(tags).value) = name
         ELSE byNameTags(Tail(tags), name)

byName(name) == [subnet \in Subnets |-> byNameTags(subnet.tags, name)]

RECURSIVE byTagKeyTags(_, _)
byTagKeyTags(tags, tagKey) ==
    IF tags = <<>> THEN FALSE
    ELSE IF StringValue(Head(tags).key) = tagKey
         THEN TRUE
         ELSE byTagKeyTags(Tail(tags), tagKey)

byTagKey(tagKey) == [subnet \in Subnets |-> byTagKeyTags(subnet.tags, tagKey)]

RECURSIVE byZonesLoop(_, _)
byZonesLoop(zones, subnet) ==
    IF zones = <<>> THEN FALSE
    ELSE IF StringValue(subnet.zone) = Head(zones)
         THEN TRUE
         ELSE byZonesLoop(Tail(zones), subnet)

byZones(zones) == [subnet \in Subnets |-> byZonesLoop(zones, subnet)]

RECURSIVE filterLoop(_, _, _)
filterLoop(predicate, rest, result) ==
    IF rest = <<>> THEN result
    ELSE filterLoop(predicate, Tail(rest),
                    IF predicate[Head(rest)]
                    THEN Append(result, Head(rest))
                    ELSE result)

\* filter that puts each match in front of the result
filterReversed(predicate, list) ==
    LET matches == filterLoop(predicate, list, <<>>)
    IN  [i \in 1..Len(matches) |-> matches[Len(matches) + 1 - i]]

\* filter that stops at the first match
filterFirst(predicate, list) ==
    LET matches == filterLoop(predicate, list, <<>>)
    IN  IF matches = <<>> THEN <<>> ELSE <<Head(matches)>>

filter(predicate, list) == filterLoop(predicate, list, <<>>)

(* Get, steps 2 to 4: the stages applied to the list getSubnets returned. *)
\* the name stage without its nil check
FilterByNameAlways(list, constraints) ==
    filter(byName(StringValue(GetSubnetName(constraints))), list)

FilterByName(list, constraints) ==
    LET name == GetSubnetName(constraints)
    IN  IF name # NilStr
        THEN filter(byName(StringValue(name)), list)
        ELSE list

\* the tag-key stage skipped for an empty tag key as for a nil one
FilterByTagKeyNonEmpty(list, constraints) ==
    LET tagKey == GetSubnetTagKey(constraints)
    IN  IF tagKey # NilStr /\ tagKey.s # ""
        THEN filter(byTagKey(tagKey.s), list)
        ELSE list

FilterByTagKey(list, constraints) ==
    LET tagKey == GetSubnetTagKey(constraints)
    IN  IF tagKey # NilStr
        THEN filter(byTagKey(tagKey.s), list)
        ELSE list

\* the zone stage without its length check
FilterByZonesAlways(list, constraints) ==
    filter(byZones(constraints.zones), list)

FilterByZones(list, constraints) ==
    IF Len(constraints.zones) # 0
    THEN filter(byZones(constraints.zones), list)
    ELSE list

Narrow(list, constraints) ==
    FilterByZones(FilterByTagKey(FilterByName(list, constraints), constraints),
                  constraints)

(***************************************************************************)
(* Cache store (github.com/patrickmn/go-cache as used by the provider):    *)
(* an item is found until the clock is past its expiration; the janitor    *)
(* deletes the items that are past it.                                     *)
(***************************************************************************)
NoItem == [present |-> FALSE, object |-> <<>>, expiration |-> 0]

Expired(item, t) == t > item.expiration

CacheGet(c, k, t) ==
    IF c[k].present /\ ~Expired(c[k], t)
    THEN [object |-> c[k].object, found |-> TRUE]
    ELSE [object |-> <<>>, found |-> FALSE]

CacheSet(c, k, x, d, t) ==
    [c EXCEPT ![k] = [present |-> TRUE, object |-> x, expiration |-> t + d]]

CacheDeleteExpired(c, t) ==
    [k \in DOMAIN c |-> IF c[k].present /\ Expired(c[k], t) THEN NoItem ELSE c[k]]

(***************************************************************************)
(* EC2 inventory: DescribeSubnets filtered by the cluster's tag key        *)
(***************************************************************************)
ClusterTagKeyFormat == "kubernetes.io/cluster/%s"

\* fmt.Sprintf(ClusterTagKeyFormat, name): the format with the name substituted
Sprintf(format, name) == <<format, name>>

\* the filter built from a fixed cluster name
DescribeSubnetsInputFixed(c) ==
    [filterName |-> "tag-key", filterValues |-> <<Sprintf(ClusterTagKeyFormat, "c1")>>]

DescribeSubnetsInput(c) ==
    [filterName |-> "tag-key", filterValues |-> <<Sprintf(ClusterTagKeyFormat, c)>>]

TagKeys == {Sprintf(ClusterTagKeyFormat, c) : c \in Clusters}

\* the lists EC2 answers with
L1 == <<S1, S2, S3, S4>>
L2 == <<S3, S1>>
InvLists == {L1, L2}

\* the causes DescribeSubnetsWithContext fails with
Causes == {"RequestError: send request failed", "RequestCanceled: context canceled"}

(***************************************************************************)
(* getSubnets                                                              *)
(***************************************************************************)
\* one key for every cluster
CacheKeyShared(c) == "c1"

CacheKey(c) == c

\* a lookup that reads the item without regard to its expiration
getSubnetsLookupRaw(c, t) ==
    [object |-> cache[CacheKey(c)].object, found |-> cache[CacheKey(c)].present]

\* line 63: the lookup and its ok
getSubnetsLookup(c, t) == CacheGet(cache, CacheKey(c), t)

\* line 71: fmt.Errorf("describing subnets, %w", err)
NoErr == [isNil |-> TRUE, text |-> <<>>, unwrap |-> ""]

Errorf(cause) ==
    [isNil |-> FALSE, text |-> <<"describing subnets, ", cause>>, unwrap |-> cause]

\* getSubnets without the Set
getSubnetsStoreSkipped(c, output, t) == cache

\* getSubnets that keeps the item the cache holds, if it holds one
getSubnetsStoreIfAbsent(c, output, t) ==
    IF cache[CacheKey(c)].present
    THEN cache
    ELSE CacheSet(cache, CacheKey(c), output, CacheTTL, t)

\* a Set that replaces the object and keeps the expiration of the item the
\* cache holds
getSubnetsStoreKeepExpiry(c, output, t) ==
    IF cache[CacheKey(c)].present
    THEN [cache EXCEPT ![CacheKey(c)].object = output]
    ELSE CacheSet(cache, CacheKey(c), output, CacheTTL, t)

\* line 74: the cache after s.cache.Set(name, output.Subnets, CacheTTL)
getSubnetsStore(c, output, t) == CacheSet(cache, CacheKey(c), output, CacheTTL, t)

(***************************************************************************)
(* Callers of Get                                                          *)
(***************************************************************************)
NoCluster == "-"

NoCons == Constraints(NilStr, NilStr, <<>>)

NoRet == [list |-> <<>>, isNil |-> TRUE, err |-> NoErr]

NoHist == [hit |-> FALSE, gen |-> 0, epoch |-> 0, nfetch |-> 0, seen |-> 0]

\* the constraints the callers of Spec pass
GetConstraints ==
    { NoCons,
      Constraints(String("a"), NilStr, <<"za">>) }

MainInit ==
    /\ now = 0
    /\ cache = [k \in {CacheKey(c) : c \in Clusters} |-> NoItem]
    /\ inventory = [f \in TagKeys |->
                      IF f = Sprintf(ClusterTagKeyFormat, "c1") THEN L1 ELSE L2]
    /\ pc = [p \in Callers |-> "idle"]
    /\ cl = [p \in Callers |-> NoCluster]
    /\ cons = [p \in Callers |-> NoCons]
    /\ out = [p \in Callers |-> <<>>]
    /\ subnets = [p \in Callers |-> <<>>]
    /\ ret = [p \in Callers |-> NoRet]
    /\ hist = [p \in Callers |-> NoHist]
    /\ fetches = [c \in Clusters |-> 0]
    /\ stores = [c \in Clusters |-> [n |-> 0, at |-> 0]]
    /\ epoch = [c \in Clusters |-> 0]

Init ==
    /\ MainInit
    /\ fpc = "off"
    /\ fbase = <<>>
    /\ fcons = NoCons
    /\ fout = NoRet

\* DescribeSubnets calls made or about to be made
Fetching ==
    fetches["c1"] + fetches["c2"] + Cardinality({p \in Callers : pc[p] = "describe"})

(* Get is called: getSubnets looks the cluster up in the cache. On a hit   *)
(* Get narrows the cached list and returns; on a miss the caller goes on   *)
(* to DescribeSubnets.                                                     *)
Get(p, c, k) ==
    /\ pc[p] = "idle"
    /\ cl' = [cl EXCEPT ![p] = c]
    /\ cons' = [cons EXCEPT ![p] = k]
    /\ LET lookup == getSubnetsLookup(c, now)
       IN  IF lookup.found
           THEN /\ subnets' = [subnets EXCEPT ![p] = lookup.object]
                /\ ret' = [ret EXCEPT ![p] =
                             [list |-> Narrow(lookup.object, k),
                              isNil |-> FALSE, err |-> NoErr]]
                /\ pc' = [pc EXCEPT ![p] = "done"]
                /\ hist' = [hist EXCEPT ![p] =
                              [hit |-> TRUE, gen |-> stores[c].n,
                               epoch |-> epoch[c], nfetch |-> 0, seen |-> 0]]
           ELSE /\ Fetching < MaxFetches
                /\ pc' = [pc EXCEPT ![p] = "describe"]
                /\ hist' = [hist EXCEPT ![p] =
                              [hit |-> FALSE, gen |-> 0,
                               epoch |-> epoch[c], nfetch |-> 0,
                               seen |-> fetches[c]]]
                /\ UNCHANGED <<subnets, ret>>
    /\ UNCHANGED <<now, cache, inventory, out, fetches, stores, epoch>>
    /\ UNCHANGED filterVars

(* DescribeSubnetsWithContext answers with the subnets tagged for the      *)
(* cluster.                                                                *)
DescribeSubnetsOK(p) ==
    /\ pc[p] = "describe"
    /\ LET input == DescribeSubnetsInput(cl[p])
       IN  out' = [out EXCEPT ![p] = inventory[input.filterValues[1]]]
    /\ fetches' = [fetches EXCEPT ![cl[p]] = @ + 1]
    /\ hist' = [hist EXCEPT ![p].nfetch = @ + 1, ![p].seen = 0]
    /\ pc' = [pc EXCEPT ![p] = "set"]
    /\ UNCHANGED <<now, cache, inventory, cl, cons, subnets, ret, stores, epoch>>
    /\ UNCHANGED filterVars

\* a failure that leaves an empty list in the cache
DescribeSubnetsErrStores(p, cause) ==
    /\ pc[p] = "describe"
    /\ fetches' = [fetches EXCEPT ![cl[p]] = @ + 1]
    /\ hist' = [hist EXCEPT ![p].nfetch = @ + 1, ![p].seen = 0]
    /\ cache' = CacheSet(cache, CacheKey(cl[p]), <<>>, CacheTTL, now)
    /\ ret' = [ret EXCEPT ![p] = [list |-> <<>>, isNil |-> TRUE, err |-> Errorf(cause)]]
    /\ pc' = [pc EXCEPT ![p] = "done"]
    /\ UNCHANGED <<now, inventory, cl, cons, out, subnets, stores, epoch>>
    /\ UNCHANGED filterVars

\* a cancelled call that hands on the subnets received so far as a result
DescribeSubnetsErrPartial(p, cause) ==
    /\ pc[p] = "describe"
    /\ fetches' = [fetches EXCEPT ![cl[p]] = @ + 1]
    /\ hist' = [hist EXCEPT ![p].nfetch = @ + 1, ![p].seen = 0]
    /\ LET part == SubSeq(inventory[DescribeSubnetsInput(cl[p]).filterValues[1]], 1, 1)
       IN  /\ out' = [out EXCEPT ![p] = part]
           /\ ret' = [ret EXCEPT ![p] =
                        [list |-> Narrow(part, cons[p]), isNil |-> FALSE,
                         err |-> Errorf(cause)]]
    /\ pc' = [pc EXCEPT ![p] = "done"]
    /\ UNCHANGED <<now, cache, inventory, cl, cons, subnets, stores, epoch>>
    /\ UNCHANGED filterVars

\* a failure answered from the item the cache still holds, expired or not
DescribeSubnetsErrFallback(p, cause) ==
    /\ pc[p] = "describe"
    /\ fetches' = [fetches EXCEPT ![cl[p]] = @ + 1]
    /\ hist' = [hist EXCEPT ![p].nfetch = @ + 1, ![p].seen = 0]
    /\ LET item == cache[CacheKey(cl[p])]
       IN  IF item.present
           THEN /\ subnets' = [subnets EXCEPT ![p] = item.object]
                /\ ret' = [ret EXCEPT ![p] =
                             [list |-> Narrow(item.object, cons[p]),
                              isNil |-> FALSE, err |-> NoErr]]
           ELSE /\ subnets' = subnets
                /\ ret' = [ret EXCEPT ![p] =
                             [list |-> <<>>, isNil |-> TRUE, err |-> Errorf(cause)]]
    /\ pc' = [pc EXCEPT ![p] = "done"]
    /\ UNCHANGED <<now, cache, inventory, cl, cons, out, stores, epoch>>
    /\ UNCHANGED filterVars

(* DescribeSubnetsWithContext fails (transport error, or the context of    *)
(* the caller is cancelled): getSubnets wraps the error, Get returns it.   *)
DescribeSubnetsErr(p, cause) ==
    /\ pc[p] = "describe"
    /\ fetches' = [fetches EXCEPT ![cl[p]] = @ + 1]
    /\ hist' = [hist EXCEPT ![p].nfetch = @ + 1, ![p].seen = 0]
    /\ ret' = [ret EXCEPT ![p] = [list |-> <<>>, isNil |-> TRUE, err |-> Errorf(cause)]]
    /\ pc' = [pc EXCEPT ![p] = "done"]
    /\ UNCHANGED <<now, cache, inventory, cl, cons, out, subnets, stores, epoch>>
    /\ UNCHANGED filterVars

\* getSubnets that looks the cache up again after the fetch and returns the
\* item another call has stored meanwhile, in place of its own output
SetAndReturnCached(p) ==
    /\ pc[p] = "set"
    /\ LET again == getSubnetsLookup(cl[p], now)
           base == IF again.found THEN again.object ELSE out[p]
       IN  /\ cache' = IF again.found THEN cache
                       ELSE getSubnetsStore(cl[p], out[p], now)
           /\ stores' = IF again.found THEN stores
                        ELSE [stores EXCEPT ![cl[p]] = [n |-> @.n + 1, at |-> now]]
           /\ subnets' = [subnets EXCEPT ![p] = base]
           /\ ret' = [ret EXCEPT ![p] =
                        [list |-> Narrow(base, cons[p]), isNil |-> FALSE,
                         err |-> NoErr]]
           /\ hist' = [hist EXCEPT ![p].gen =
                         IF again.found THEN stores[cl[p]].n ELSE stores[cl[p]].n + 1]
    /\ pc' = [pc EXCEPT ![p] = "done"]
    /\ UNCHANGED <<now, inventory, cl, cons, out, fetches, epoch>>
    /\ UNCHANGED filterVars

\* getSubnets that stores the list after Get has narrowed it
SetAndReturnNarrowed(p) ==
    /\ pc[p] = "set"
    /\ cache' = getSubnetsStore(cl[p], Narrow(out[p], cons[p]), now)
    /\ stores' = [stores EXCEPT ![cl[p]] = [n |-> @.n + 1, at |-> now]]
    /\ subnets' = [subnets EXCEPT ![p] = out[p]]
    /\ ret' = [ret EXCEPT ![p] =
                 [list |-> Narrow(out[p], cons[p]), isNil |-> FALSE, err |-> NoErr]]
    /\ hist' = [hist EXCEPT ![p].gen = stores[cl[p]].n + 1]
    /\ pc' = [pc EXCEPT ![p] = "done"]
    /\ UNCHANGED <<now, inventory, cl, cons, out, fetches, epoch>>
    /\ UNCHANGED filterVars

(* getSubnets stores output.Subnets under the cluster name and returns     *)
(* it; Get narrows it and returns.                                         *)
SetAndReturn(p) ==
    /\ pc[p] = "set"
    /\ cache' = getSubnetsStore(cl[p], out[p], now)
    /\ stores' = [stores EXCEPT ![cl[p]] = [n |-> @.n + 1, at |-> now]]
    /\ subnets' = [subnets EXCEPT ![p] = out[p]]
    /\ ret' = [ret EXCEPT ![p] =
                 [list |-> Narrow(out[p], cons[p]), isNil |-> FALSE, err |-> NoErr]]
    /\ hist' = [hist EXCEPT ![p].gen = stores[cl[p]].n + 1]
    /\ pc' = [pc EXCEPT ![p] = "done"]
    /\ UNCHANGED <<now, inventory, cl, cons, out, fetches, epoch>>
    /\ UNCHANGED filterVars

(* The caller has its answer and is free to call again. *)
Return(p) ==
    /\ pc[p] = "done"
    /\ pc' = [pc EXCEPT ![p] = "idle"]
    /\ cl' = [cl EXCEPT ![p] = NoCluster]
    /\ cons' = [cons EXCEPT ![p] = NoCons]
    /\ out' = [out EXCEPT ![p] = <<>>]
    /\ subnets' = [subnets EXCEPT ![p] = <<>>]
    /\ ret' = [ret EXCEPT ![p] = NoRet]
    /\ hist' = [hist EXCEPT ![p] = NoHist]
    /\ UNCHANGED <<now, cache, inventory, fetches, stores, epoch>>
    /\ UNCHANGED filterVars

(* The clock advances; an item whose expiration it passes has expired. *)
Tick ==
    /\ now < MaxTime
    /\ now' = now + 1
    /\ epoch' = [c \in Clusters |->
                   IF cache[CacheKey(c)].present
                      /\ ~Expired(cache[CacheKey(c)], now)
                      /\ Expired(cache[CacheKey(c)], now + 1)
                   THEN epoch[c] + 1 ELSE epoch[c]]
    /\ UNCHANGED <<cache, inventory, pc, cl, cons, out, subnets, ret, hist,
                   fetches, stores>>
    /\ UNCHANGED filterVars

(* The janitor of the cache runs. *)
DeleteExpired ==
    /\ cache' = CacheDeleteExpired(cache, now)
    /\ cache' # cache
    /\ UNCHANGED <<now, inventory, pc, cl, cons, out, subnets, ret, hist,
                   fetches, stores, epoch>>
    /\ UNCHANGED filterVars

(* The subnets tagged for a cluster change in EC2. *)
InventoryChange(f, l) ==
    /\ inventory[f] # l
    /\ inventory' = [inventory EXCEPT ![f] = l]
    /\ UNCHANGED <<now, cache, pc, cl, cons, out, subnets, ret, hist,
                   fetches, stores, epoch>>
    /\ UNCHANGED filterVars

Next ==
    \/ \E p \in Callers, c \in Clusters, k \in GetConstraints : Get(p, c, k)
    \/ \E p \in Callers : DescribeSubnetsOK(p)
    \/ \E p \in Callers, cause \in Causes : DescribeSubnetsErr(p, cause)
    \/ \E p \in Callers : SetAndReturn(p)
    \/ \E p \in Callers : Return(p)
    \/ Tick
    \/ DeleteExpired
    \/ \E f \in TagKeys, l \in InvLists : InventoryChange(f, l)

Spec == Init /\ [][Next]_vars

(***************************************************************************)
(* FilterSpec: Get from the return of getSubnets on (lines 47 to 59), for  *)
(* every base list and every constraint of the bounds.                     *)
(***************************************************************************)
NameInputs == {NilStr, String(""), String("a"), String("b")}

TagKeyInputs == {NilStr, String(""), String("k"), String("Name")}

ZoneInputs == SeqsUpTo({"za", "zb", ""}, MaxZones)

FilterInit ==
    /\ MainInit
    /\ fpc = "in"
    /\ fbase \in SeqsUpTo(Subnets, MaxLen)
    /\ fcons \in {Constraints(n, k, z) :
                     n \in NameInputs, k \in TagKeyInputs, z \in ZoneInputs}
    /\ fout = NoRet

GetNarrow ==
    /\ fpc = "in"
    /\ fout' = [list |-> Narrow(fbase, fcons), isNil |-> FALSE, err |-> NoErr]
    /\ fpc' = "out"
    /\ UNCHANGED <<fbase, fcons>>
    /\ UNCHANGED mainVars

FilterNext == GetNarrow

FilterSpec == FilterInit /\ [][FilterNext]_vars

TypeOK ==
    /\ now \in 0..MaxTime
    /\ \A p \in Callers : pc[p] \in {"idle", "describe", "set", "done"}
    /\ \A c \in Clusters : fetches[c] \in 0..MaxFetches

(***************************************************************************)
(* Properties                                                              *)
(***************************************************************************)
\* caller p has started a call in this step
Starts(p) == pc[p] = "idle" /\ pc'[p] # "idle"

\* the last Set for cluster c was made less than a TTL ago
StoredWithinTTL(c, t) == stores[c].n > 0 /\ t < stores[c].at + CacheTTL

\* no Set was made for cluster c, or the TTL of the last has elapsed
NothingStoredOrElapsed(c, t) == stores[c].n = 0 \/ t > stores[c].at + CacheTTL

Succeeded(p) == pc[p] = "done" /\ ret[p].err.isNil

Failed(p) == pc[p] = "done" /\ ~ret[p].err.isNil

(* C1: once a fetch for a cluster has been stored, a Get for that cluster  *)
(* that starts before the TTL of that store has elapsed returns in that    *)
(* step, without error and without a DescribeSubnets call: the fetch       *)
(* count of every cluster is unchanged.                                    *)
C1_HitWithinTTL ==
    [][\A p \in Callers :
         (Starts(p) /\ StoredWithinTTL(cl'[p], now))
         => /\ pc'[p] = "done"
            /\ ret'[p].err.isNil
            /\ ~ret'[p].isNil
            /\ hist'[p].nfetch = 0
            /\ fetches' = fetches]_vars

C1_Witness ==
    \E p \in Callers :
        /\ Succeeded(p)
        /\ hist[p].hit
        /\ hist[p].nfetch = 0
        /\ StoredWithinTTL(cl[p], now)
        /\ fetches[cl[p]] = 1

(* C2: a Get that starts after the TTL of the last store for its cluster   *)
(* has elapsed (or when nothing was stored) goes on to DescribeSubnets; a  *)
(* call makes one DescribeSubnets call at most, and exactly one when it    *)
(* missed; on success the item of the cluster becomes the fetched list     *)
(* with a new TTL, so that a lookup right after finds the fetched list.    *)
C2_RefreshAfterExpiry ==
    [][\A p \in Callers :
         /\ (Starts(p) /\ NothingStoredOrElapsed(cl'[p], now))
            => (pc'[p] = "describe" /\ fetches' = fetches)
         /\ (pc[p] = "describe" /\ pc'[p] # "describe")
            => (hist'[p].nfetch = 1 /\ fetches'[cl[p]] = fetches[cl[p]] + 1)
         /\ (pc[p] = "set" /\ pc'[p] = "done")
            => /\ hist'[p].nfetch = 1
               /\ fetches' = fetches
               /\ cache'[CacheKey(cl[p])] =
                    [present |-> TRUE, object |-> out[p], expiration |-> now + CacheTTL]
               /\ CacheGet(cache', CacheKey(cl[p]), now) =
                    [object |-> out[p], found |-> TRUE]
               /\ subnets'[p] = out[p]]_vars

\* a call that missed on an item that had expired, and stored a list other
\* than the one that expired
C2_Witness ==
    \E p \in Callers :
        /\ Succeeded(p)
        /\ ~hist[p].hit
        /\ hist[p].epoch >= 1
        /\ hist[p].nfetch = 1
        /\ stores[cl[p]].n = 2
        /\ cache[CacheKey(cl[p])].object = subnets[p]
        /\ subnets[p] = L2
        /\ cl[p] = "c1"

(* C3: when DescribeSubnets fails, Get returns an error and no list, and   *)
(* no step of the failing call, its lookup included, changes the cache.    *)
C3_FailureLeavesCache ==
    [][\A p \in Callers :
         /\ (pc[p] = "describe" /\ pc'[p] = "done")
            => (~ret'[p].err.isNil /\ ret'[p].isNil /\ ret'[p].list = <<>>
                /\ cache' = cache)
         /\ (pc[p] # "done" /\ pc'[p] = "done" /\ ~ret'[p].err.isNil)
            => (pc[p] = "describe" /\ cache' = cache)
         /\ (Starts(p) /\ pc'[p] = "describe") => cache' = cache]_vars

\* a failed call for a cluster whose expired item is still in the cache
C3_Witness ==
    \E p \in Callers :
        /\ Failed(p)
        /\ ret[p].isNil
        /\ hist[p].nfetch = 1
        /\ cache[CacheKey(cl[p])].present
        /\ Expired(cache[CacheKey(cl[p])], now)
        /\ stores[cl[p]].n = 1

(* What the constraints ask of one subnet, read off the tags and the zone. *)
NameTagIndexes(s) ==
    {i \in DOMAIN s.tags : StringValue(s.tags[i].key) = "Name"}

HasName(s, name) ==
    /\ NameTagIndexes(s) # {}
    /\ LET first == CHOOSE i \in NameTagIndexes(s) :
                        \A j \in NameTagIndexes(s) : i <= j
       IN  StringValue(s.tags[first].value) = name

HasTagKey(s, tagKey) ==
    \E i \in DOMAIN s.tags : StringValue(s.tags[i].key) = tagKey

InZones(s, zones) ==
    \E i \in DOMAIN zones : zones[i] = StringValue(s.zone)

SatisfiesNameAndTagKey(s, k) ==
    /\ k.name.present => HasName(s, k.name.s)
    /\ k.tagKey.present => HasTagKey(s, k.tagKey.s)

Satisfies(s, k) ==
    /\ SatisfiesNameAndTagKey(s, k)
    /\ k.zones # <<>> => InZones(s, k.zones)

\* result holds the elements of base at the indexes of keep, in their order
IsSublistAt(result, base, keep) ==
    /\ Len(result) = Cardinality(keep)
    /\ \A i \in keep :
         result[Cardinality({j \in keep : j <= i})] = base[i]

(* C4: Get returns, without error, the subnets of the base list that       *)
(* satisfy every constraint that is present, each as often as, and in the  *)
(* order in which, the base list holds them; an empty list is returned as  *)
(* a list, not as an error.                                                *)
C4_ReturnsTheMatches ==
    fpc = "out"
    => /\ fout.err.isNil
       /\ ~fout.isNil
       /\ IsSublistAt(fout.list, fbase,
                      {i \in DOMAIN fbase : Satisfies(fbase[i], fcons)})

\* all three constraints present, one subnet kept and one dropped
C4_Witness ==
    /\ fpc = "out"
    /\ fcons.name.present /\ fcons.tagKey.present /\ fcons.zones # <<>>
    /\ Len(fbase) = MaxLen
    /\ Len(fout.list) = 1
    /\ fout.list[1] = fbase[Len(fbase)]
    /\ fbase[1] # fbase[Len(fbase)]

(* C5: the three stages applied in any of their six orders give the list   *)
(* that Get returns.                                                       *)
Stage(i, list, k) ==
    CASE i = 1 -> FilterByName(list, k)
      [] i = 2 -> FilterByTagKey(list, k)
      [] i = 3 -> FilterByZones(list, k)

StageOrders ==
    {o \in [1..3 -> 1..3] : \A i, j \in 1..3 : i # j => o[i] # o[j]}

InOrder(o, list, k) == Stage(o[3], Stage(o[2], Stage(o[1], list, k), k), k)

C5_StageOrderIrrelevant ==
    fpc = "out" => \A o \in StageOrders : InOrder(o, fbase, fcons) = fout.list

\* all three stages apply, and no two of them alone give the same list
C5_Witness ==
    /\ fpc = "out"
    /\ fcons.name.present /\ fcons.tagKey.present /\ fcons.zones # <<>>
    /\ FilterByName(fbase, fcons) # FilterByTagKey(fbase, fcons)
    /\ FilterByName(fbase, fcons) # FilterByZones(fbase, fcons)
    /\ FilterByTagKey(fbase, fcons) # FilterByZones(fbase, fcons)
    /\ fout.list # <<>>

(* C6: a Get with no name, no tag key and no zones returns the list        *)
(* getSubnets gave it, the cached list on a hit and the fetched list on a  *)
(* miss, element for element.                                              *)
C6_NoConstraintsFullList ==
    \A p \in Callers :
        (Succeeded(p) /\ cons[p] = NoCons)
        => /\ ~ret[p].isNil
           /\ ret[p].list = subnets[p]
           /\ ~hist[p].hit => ret[p].list = out[p]
           /\ ret[p].list \in InvLists

C6_Witness ==
    \E p, q \in Callers :
        /\ Succeeded(p) /\ cons[p] = NoCons /\ hist[p].hit
        /\ Succeeded(q) /\ cons[q] = NoCons /\ ~hist[q].hit
        /\ ret[p].list = L1
        /\ ret[q].list = L1

(* C7: with an empty zone list Get returns the subnets of the base list    *)
(* that satisfy the name and tag-key constraints, whatever their zones.    *)
C7_EmptyZonesNoZoneFilter ==
    (fpc = "out" /\ fcons.zones = <<>>)
    => IsSublistAt(fout.list, fbase,
                   {i \in DOMAIN fbase : SatisfiesNameAndTagKey(fbase[i], fcons)})

\* subnets of two different zones returned under an empty zone list
C7_Witness ==
    /\ fpc = "out"
    /\ fcons.zones = <<>>
    /\ fcons.tagKey.present
    /\ Len(fout.list) = 2
    /\ fout.list[1].zone # fout.list[2].zone
    /\ Len(fbase) > Len(fout.list) \/ fcons.name.present

\* the item of cluster c is past its expiration and still in the cache
StaleInCache(c) ==
    cache[CacheKey(c)].present /\ Expired(cache[CacheKey(c)], now)

\* what a lookup made now would return, per cluster
LookupView == [c \in Clusters |-> getSubnetsLookup(c, now)]

(* C8: a lookup of an item past its expiration returns what the lookup of  *)
(* an absent key returns, and a Get that makes it goes on to               *)
(* DescribeSubnets as for an absent key; a run of the janitor changes the  *)
(* result of no lookup, so no Get depends on when the janitor runs.        *)
C8_ExpiredIsAbsent ==
    [][/\ \A c \in Clusters :
            StaleInCache(c)
            => getSubnetsLookup(c, now) = [object |-> <<>>, found |-> FALSE]
       /\ \A p \in Callers :
            (Starts(p) /\ StaleInCache(cl'[p]))
            => /\ pc'[p] = "describe"
               /\ ret'[p] = NoRet
               /\ subnets'[p] = <<>>
               /\ cache' = cache
       /\ (cache' # cache /\ pc' = pc) => LookupView' = LookupView]_vars

\* a call that looked up an item already expired and not yet deleted, and
\* went on to DescribeSubnets
C8_Witness ==
    \E p \in Callers :
        /\ pc[p] = "describe"
        /\ StaleInCache(cl[p])
        /\ hist[p].epoch = epoch[cl[p]]
        /\ epoch[cl[p]] = 1
        /\ stores[cl[p]].n = 1

\* the list getSubnets returned to a call that has returned a list
HasBase(p) == Succeeded(p)

(* C9, as claimed: two Get calls for one cluster with no expiry of an item *)
(* of the cluster between or during them narrow the same base list.        *)
C9_SameWindowSameBase ==
    \A p, q \in Callers :
        (/\ HasBase(p) /\ HasBase(q)
         /\ cl[p] = cl[q]
         /\ hist[p].epoch = epoch[cl[p]]
         /\ hist[q].epoch = epoch[cl[q]])
        => subnets[p] = subnets[q]

(* C9, amended: two Get calls for one cluster that returned the object of  *)
(* the same cache item (the call whose fetch stored the item and the calls *)
(* that hit it) narrow the same base list.                                 *)
C9_SameItemSameBase ==
    \A p, q \in Callers :
        (/\ HasBase(p) /\ HasBase(q)
         /\ cl[p] = cl[q]
         /\ hist[p].gen = hist[q].gen)
        => subnets[p] = subnets[q]

\* the call that stored an item and a call that hit it, after the
\* inventory of the cluster has changed
C9_Witness ==
    \E p, q \in Callers :
        /\ HasBase(p) /\ HasBase(q)
        /\ cl[p] = cl[q]
        /\ hist[p].gen = hist[q].gen
        /\ ~hist[p].hit /\ hist[q].hit
        /\ inventory[Sprintf(ClusterTagKeyFormat, cl[p])] # subnets[p]

(* C10: the error Get returns when DescribeSubnets fails or is cancelled   *)
(* wraps the cause and names the cluster that was being resolved.          *)
C10_ErrorNamesCluster ==
    \A p \in Callers :
        Failed(p)
        => /\ ret[p].err.unwrap \in Causes
           /\ \E i \in DOMAIN ret[p].err.text : ret[p].err.text[i] = ret[p].err.unwrap
           /\ \E i \in DOMAIN ret[p].err.text : ret[p].err.text[i] = cl[p]

\* the cause DescribeSubnetsWithContext fails with when the context of the
\* caller is cancelled or its deadline passes
Cancelled == "RequestCanceled: context canceled"

(* C11: when the context is cancelled while Get waits for DescribeSubnets, *)
(* Get returns an error that wraps the cancellation and a nil list, no     *)
(* part of the inventory, and the step writes nothing to the cache.        *)
C11_CancelNoPartialNoStore ==
    [][\A p \in Callers :
         (pc[p] = "describe" /\ pc'[p] = "done" /\ ret'[p].err.unwrap = Cancelled)
         => /\ ~ret'[p].err.isNil
            /\ ret'[p].isNil
            /\ ret'[p].list = <<>>
            /\ out'[p] = <<>>
            /\ subnets'[p] = <<>>
            /\ cache' = cache
            /\ stores' = stores]_vars

\* a cancelled call for a cluster that has no item in the cache, while the
\* inventory of the cluster is not empty
C11_Witness ==
    \E p \in Callers :
        /\ Failed(p)
        /\ ret[p].err.unwrap = Cancelled
        /\ ret[p].isNil
        /\ ~cache[CacheKey(cl[p])].present
        /\ inventory[Sprintf(ClusterTagKeyFormat, cl[p])] # <<>>
        /\ stores[cl[p]].n = 0

\* the subnets of a list
Elements(list) == {list[i] : i \in DOMAIN list}

\* the tags of s with key "Name" that come after another tag with that key
LaterNameTags(s) ==
    {i \in NameTagIndexes(s) : \E j \in NameTagIndexes(s) : j < i}

(* C12: for the requested name and every subnet of the base list, byName   *)
(* is true iff the subnet has a "Name" tag and the first of them has the   *)
(* requested value: a subnet without a "Name" tag never matches, and a     *)
(* later "Name" tag decides nothing. The subnets Get returns under a name  *)
(* constraint all match, and with no other constraint all matches are      *)
(* returned.                                                               *)
C12_FirstNameTagGoverns ==
    (fpc = "out" /\ fcons.name.present)
    => LET name == fcons.name.s
           matches(s) == byName(name)[s]
       IN  /\ \A s \in Elements(fbase) :
                /\ NameTagIndexes(s) = {} => ~matches(s)
                /\ NameTagIndexes(s) # {}
                   => \A i \in NameTagIndexes(s) \ LaterNameTags(s) :
                        matches(s) <=> (StringValue(s.tags[i].value) = name)
           /\ \A s \in Elements(fout.list) : matches(s)
           /\ (~fcons.tagKey.present /\ fcons.zones = <<>>)
              => Elements(fout.list) = {s \in Elements(fbase) : matches(s)}

\* a subnet whose second "Name" tag has the requested value and whose first
\* has not is dropped, next to a subnet that is kept and one without the tag
C12_Witness ==
    /\ fpc = "out"
    /\ fcons.name.present /\ ~fcons.tagKey.present /\ fcons.zones = <<>>
    /\ \E s \in Elements(fbase) \ Elements(fout.list) :
         \E i \in LaterNameTags(s) : StringValue(s.tags[i].value) = fcons.name.s
    /\ \E s \in Elements(fbase) \ Elements(fout.list) : NameTagIndexes(s) = {}
    /\ fout.list # <<>>

\* the list with the subnets that satisfy want, in the order of the list
Only(list, want(_)) == SelectSeq(list, want)

(* C15: with the zone list empty, a nil name and a nil tag key leave the   *)
(* base list as it is, while a name or a tag key that is the empty string  *)
(* is applied as a constraint: the name stage keeps the subnets whose      *)
(* first "Name" tag has the empty value, the tag-key stage those with a    *)
(* tag whose key is empty.                                                 *)
C15_AbsentIsNotEmpty ==
    (fpc = "out" /\ fcons.zones = <<>>)
    => LET emptyName(s) == HasName(s, "")
           emptyKey(s) == HasTagKey(s, "")
       IN  /\ (fcons.name = NilStr /\ fcons.tagKey = NilStr)
              => fout.list = fbase
           /\ (fcons.name = String("") /\ fcons.tagKey = NilStr)
              => fout.list = Only(fbase, emptyName)
           /\ (fcons.name = NilStr /\ fcons.tagKey = String(""))
              => fout.list = Only(fbase, emptyKey)
           /\ (fcons.name = String("") /\ fcons.tagKey = String(""))
              => fout.list = Only(Only(fbase, emptyName), emptyKey)

\* an empty tag key drops subnets that the nil tag key would have kept
C15_Witness ==
    /\ fpc = "out"
    /\ fcons.zones = <<>>
    /\ fcons.name = NilStr
    /\ fcons.tagKey = String("")
    /\ Len(fout.list) = 1
    /\ Len(fbase) = MaxLen
    /\ Narrow(fbase, NoCons) = fbase

\* the callers between their lookup and their return that missed on cluster c
Missed(c) ==
    {p \in Callers : cl[p] = c /\ pc[p] \in {"describe", "set"}}

(* C13: fetches are not de-duplicated. A Get that misses goes on to its    *)
(* own DescribeSubnets call whatever calls for the cluster are already in  *)
(* flight; each such call adds one to the fetch count of the cluster; and  *)
(* a call that fetched returns the narrowing of its own output, also when  *)
(* another call has stored a list for the cluster meanwhile.               *)
C13_NoSingleFlight ==
    [][\A p \in Callers :
         /\ (Starts(p) /\ ~getSubnetsLookup(cl'[p], now).found)
            => (pc'[p] = "describe" /\ fetches' = fetches)
         /\ (pc[p] = "describe" /\ pc'[p] = "set")
            => /\ fetches'[cl[p]] = fetches[cl[p]] + 1
               /\ out'[p] = inventory[Sprintf(ClusterTagKeyFormat, cl[p])]
         /\ (pc[p] = "set" /\ pc'[p] # "set")
            => /\ pc'[p] = "done"
               /\ subnets'[p] = out[p]
               /\ ret'[p] = [list |-> Narrow(out[p], cons[p]), isNil |-> FALSE,
                             err |-> NoErr]]_vars

\* two calls for one cluster in flight at once, before either has stored
C13_InFlight ==
    \E c \in Clusters :
        /\ Cardinality(Missed(c)) = 2
        /\ stores[c].n = 0

\* two calls for one cluster that both missed, both fetched, and returned
\* different lists with no expiry in between
C13_Witness ==
    \E p, q \in Callers :
        /\ p # q /\ cl[p] = cl[q]
        /\ Succeeded(p) /\ Succeeded(q)
        /\ ~hist[p].hit /\ ~hist[q].hit
        /\ hist[p].nfetch = 1 /\ hist[q].nfetch = 1
        /\ fetches[cl[p]] = 2
        /\ epoch[cl[p]] = 0
        /\ subnets[p] # subnets[q]
        /\ cons[p] = NoCons /\ cons[q] = NoCons
        /\ ret[p].list # ret[q].list

(* C14: the cache has one item per cluster name at most. The Set of a      *)
(* successful fetch replaces the item of its cluster by the fetched list   *)
(* with expiration time of the Set plus TTL, whatever the item was and     *)
(* whoever wrote it, and leaves the other items alone; a hit changes no    *)
(* item, its expiration included.                                          *)
C14_LastWriterWins ==
    [][/\ Cardinality(DOMAIN cache') = Cardinality(Clusters)
       /\ \A c, d \in Clusters : CacheKey(c) = CacheKey(d) => c = d
       /\ \A p \in Callers :
            /\ (pc[p] = "set" /\ pc'[p] = "done")
               => cache' = [cache EXCEPT ![CacheKey(cl[p])] =
                              [present |-> TRUE, object |-> out[p],
                               expiration |-> now + CacheTTL]]
            /\ (Starts(p) /\ pc'[p] = "done")
               => (hist'[p].hit /\ cache' = cache)]_vars

\* the second of two overlapping fetches has replaced the list and the
\* expiration the first had stored
C14_Witness ==
    \E p, q \in Callers :
        /\ cl[p] = cl[q]
        /\ Succeeded(p) /\ ~hist[p].hit /\ hist[p].gen = 1
        /\ Succeeded(q) /\ ~hist[q].hit /\ hist[q].gen = 2
        /\ subnets[p] # subnets[q]
        /\ cache[CacheKey(cl[q])] =
             [present |-> TRUE, object |-> subnets[q],
              expiration |-> stores[cl[q]].at + CacheTTL]
        /\ stores[cl[q]].at > 0
        /\ epoch[cl[q]] = 0

\* the object of the item of cluster c
Cached(c) == cache[CacheKey(c)].object

(* C16: the object cached under a cluster name is the whole output of one  *)
(* DescribeSubnets call made with the filter of that cluster. The output   *)
(* of a call is what the inventory holds under the tag key of its cluster; *)
(* it is stored as fetched, whatever the constraints of the call; an item  *)
(* changes only by such a Set or by its deletion; and an unconstrained hit *)
(* returns the object whole.                                               *)
C16_CacheHoldsWholeFetch ==
    [][/\ \A p \in Callers :
            /\ (pc[p] = "describe" /\ pc'[p] = "set")
               => out'[p] = inventory[Sprintf(ClusterTagKeyFormat, cl[p])]
            /\ (pc[p] = "set" /\ pc'[p] = "set") => out'[p] = out[p]
            /\ (pc[p] = "set" /\ pc'[p] = "done")
               => (Cached(cl[p])' = out[p] /\ subnets'[p] = out[p])
            /\ (Starts(p) /\ pc'[p] = "done" /\ cons'[p] = NoCons)
               => ret'[p].list = Cached(cl'[p])
       /\ \A c \in Clusters :
            /\ cache[CacheKey(c)].present => Cached(c) \in InvLists
            /\ cache'[CacheKey(c)] # cache[CacheKey(c)]
               => \/ cache'[CacheKey(c)] = NoItem
                  \/ \E p \in Callers :
                       /\ pc[p] = "set" /\ pc'[p] = "done" /\ cl[p] = c
                       /\ Cached(c)' = out[p]]_vars

\* a call with constraints fetched and returned one subnet of four; a call
\* without constraints then hit the item it stored and returned all four
C16_Witness ==
    \E p, q \in Callers :
        /\ cl[p] = cl[q]
        /\ Succeeded(q) /\ ~hist[q].hit /\ cons[q] # NoCons
        /\ Succeeded(p) /\ hist[p].hit /\ cons[p] = NoCons
        /\ hist[p].gen = hist[q].gen
        /\ ret[q].list = <<S1>>
        /\ ret[p].list = L1
        /\ Cached(cl[p]) = L1

\* the cluster the step of caller p is made for
StepCluster(p) == IF pc[p] = "idle" THEN cl'[p] ELSE cl[p]

\* the cache with every item but that of cluster c removed
OnlyItemOf(c) ==
    [k \in DOMAIN cache |-> IF k = CacheKey(c) THEN cache[k] ELSE NoItem]

(* C17: a step of a Get for cluster A, be it a hit, a miss, a fetch, a     *)
(* failure, a Set or the return, leaves the item, the fetch count and the  *)
(* store count of every other cluster as they were; what its lookup        *)
(* returns does not depend on the items of other clusters; and its fetch   *)
(* reads the inventory under the tag key of A.                             *)
C17_OtherClustersUntouched ==
    [][\A p \in Callers :
         pc'[p] # pc[p]
         => LET a == StepCluster(p)
            IN  /\ \A b \in Clusters \ {a} :
                     /\ cache'[CacheKey(b)] = cache[CacheKey(b)]
                     /\ fetches'[b] = fetches[b]
                     /\ stores'[b] = stores[b]
                /\ Starts(p)
                   => LET alone == CacheGet(OnlyItemOf(a), CacheKey(a), now)
                      IN  /\ (pc'[p] = "done") <=> alone.found
                          /\ alone.found => subnets'[p] = alone.object
                /\ (pc[p] = "describe" /\ pc'[p] = "set")
                   => /\ out'[p] = inventory[Sprintf(ClusterTagKeyFormat, a)]
                      /\ DescribeSubnetsInput(a).filterValues =
                           <<Sprintf(ClusterTagKeyFormat, a)>>]_vars

\* a call for one cluster has fetched and stored while the other cluster
\* holds a different list with a different expiration and inventory
C17_Witness ==
    \E p \in Callers :
        LET a == cl[p]
        IN  /\ Succeeded(p) /\ ~hist[p].hit
            /\ \E b \in Clusters \ {a} :
                 /\ cache[CacheKey(b)].present
                 /\ Cached(b) # Cached(a)
                 /\ cache[CacheKey(b)].expiration # cache[CacheKey(a)].expiration
                 /\ inventory[Sprintf(ClusterTagKeyFormat, b)]
                      # inventory[Sprintf(ClusterTagKeyFormat, a)]
                 /\ fetches[b] = 1 /\ fetches[a] = 1

(* C18: failures are not cached. The step in which DescribeSubnets fails   *)
(* returns an error and no list, also when an expired item is still in the *)
(* cache, and changes the result of no lookup; a Get that finds no valid   *)
(* item, after a failure as at any other time, goes on to DescribeSubnets; *)
(* when that call succeeds Get returns the narrowing of its output and a   *)
(* lookup right after finds the output; no call makes more than one        *)
(* DescribeSubnets call, and a list returned on a hit is that of an item   *)
(* not past its expiration.                                                *)
C18_FailuresNotCached ==
    [][\A p \in Callers :
         /\ hist'[p].nfetch <= 1
         /\ (pc[p] = "describe" /\ pc'[p] = "done")
            => /\ ~ret'[p].err.isNil /\ ret'[p].isNil /\ ret'[p].list = <<>>
               /\ subnets'[p] = <<>>
               /\ LookupView' = LookupView
         /\ (Starts(p) /\ ~LookupView[cl'[p]].found)
            => (pc'[p] = "describe" /\ hist'[p].nfetch = 0)
         /\ (pc[p] = "describe" /\ pc'[p] # "describe") => hist'[p].nfetch = 1
         /\ (pc[p] = "set" /\ pc'[p] = "done")
            => /\ ret'[p] = [list |-> Narrow(out[p], cons[p]), isNil |-> FALSE,
                             err |-> NoErr]
               /\ LookupView'[cl[p]] = [object |-> out[p], found |-> TRUE]
         /\ (Starts(p) /\ pc'[p] = "done")
            => /\ cache[CacheKey(cl'[p])].present
               /\ now <= cache[CacheKey(cl'[p])].expiration
               /\ subnets'[p] = Cached(cl'[p])]_vars

\* a Get has failed, which was the only fetch of its cluster so far, and
\* the Get that looked the cluster up after it is on its way to EC2
C18_Witness ==
    \E p, q \in Callers :
        /\ Failed(p)
        /\ cl[q] = cl[p]
        /\ pc[q] = "describe"
        /\ hist[q].seen = 1
        /\ fetches[cl[p]] = 1
        /\ stores[cl[p]].n = 0
        /\ ~cache[CacheKey(cl[p])].present

====
